---- MODULE Spec2Model ----
(***************************************************************************)
(* mini-ast-parser: a scanner (Tokenizer.tokenize) turning source text     *)
(* into tokens, and a recursive-descent parser (Parser.parse) turning the  *)
(* tokens into an AST.  Strings are sequences of one-character strings,    *)
(* offsets are 0-based as in the source, sequences are 1-based.            *)
(***************************************************************************)
EXTENDS Integers, Sequences, FiniteSets, TLC

VARIABLES
  source,        \* Tokenizer.#source
  tIndex,        \* Tokenizer.#currentIndex
  tTokens,       \* Tokenizer.#tokens
  tStatus,       \* position of tokenize(): "idle", "running", "done", "error"
  tOut,          \* what each finished tokenize() invocation gave its caller
  tokens,        \* Parser.#tokens
  currentIndex,  \* Parser.#currentIndex
  stack,         \* call stack of the running parse(): frames, top last
  ret,           \* value returned by the callee that has just returned
  pStatus,       \* position of parse(): "none", "idle", "running", "done", "error"
  pOut,          \* what each finished parse() invocation gave its caller
  prim           \* last direct application of a cursor primitive

vars == <<source, tIndex, tTokens, tStatus, tOut,
          tokens, currentIndex, stack, ret, pStatus, pOut, prim>>

tokVars == <<source, tIndex, tTokens, tStatus, tOut>>
parVars == <<tokens, currentIndex, stack, ret, pStatus, pOut>>

----------------------------------------------------------------------------
(* Bounds of the model *)

MaxCalls == 2       \* invocations of tokenize() / parse() on one instance
MaxWords == 2       \* words per source in the exhaustive word sources
MaxShort == 3       \* length of the exhaustively enumerated token sequences
MaxParams == 2      \* parameters per function in the generated programs
MaxTop == 2         \* top-level statements in the generated programs

----------------------------------------------------------------------------
(* Values of the language runtime *)

Undefined == "undefined"
Null == [type |-> "null"]
Infinity == -1

(* TokenType *)
Let == "Let"
Assign == "Assign"
Function == "Function"
Identifier == "Identifier"
LeftParen == "LeftParen"
RightParen == "RightParen"
LeftCurly == "LeftCurly"
RightCurly == "RightCurly"

TokenType ==
  {Let, Assign, Function, Identifier, LeftParen, RightParen, LeftCurly, RightCurly}

----------------------------------------------------------------------------
(* Tokenizer.ts *)

Lower == {"a","b","c","d","e","f","g","h","i","j","k","l","m",
          "n","o","p","q","r","s","t","u","v","w","x","y","z"}
Upper == {"A","B","C","D","E","F","G","H","I","J","K","L","M",
          "N","O","P","Q","R","S","T","U","V","W","X","Y","Z"}

(* isAlpha of ./utils: true of an alphabetic character, false of anything   *)
(* else, the undefined read past the end of the source included.            *)
isAlpha(c) == c \in Lower \cup Upper

LetText == <<"l","e","t">>
AssignText == <<"a","s","s","i","g","n">>
FunctionText == <<"f","u","n","c","t","i","o","n">>
LeftParenText == <<"l","e","f","t","P","a","r","e","n">>
RightParenText == <<"r","i","g","h","t","P","a","r","e","n">>
LeftCurlyText == <<"l","e","f","t","C","u","r","l","y">>
RightCurlyText == <<"r","i","g","h","t","C","u","r","l","y">>
IdentifierText == <<"i","d","e","n","t","i","f","i","e","r">>
ValueOfText == <<"v","a","l","u","e","O","f">>

(* TOKENS_GENERATOR: one entry per own key *)
GenLet(start) ==
  [type |-> Let, value |-> LetText, start |-> start, end |-> start + 3]
GenAssign(start) ==
  [type |-> Assign, value |-> <<"=">>, start |-> start, end |-> start + 1]
GenFunction(start) ==
  [type |-> Function, value |-> FunctionText, start |-> start, end |-> start + 8]
GenLeftParen(start) ==
  [type |-> LeftParen, value |-> <<"(">>, start |-> start, end |-> start + 1]
GenRightParen(start) ==
  [type |-> RightParen, value |-> <<")">>, start |-> start, end |-> start + 1]
GenLeftCurly(start) ==
  [type |-> LeftCurly, value |-> <<"{">>, start |-> start, end |-> start + 1]
GenRightCurly(start) ==
  [type |-> RightCurly, value |-> <<"}">>, start |-> start, end |-> start + 1]
GenIdentifier(start, value) ==
  [type |-> Identifier, value |-> value, start |-> start, end |-> start + Len(value)]

OwnKeys ==
  {LetText, AssignText, FunctionText, LeftParenText, RightParenText,
   LeftCurlyText, RightCurlyText, IdentifierText}

(* Keys the object inherits from Object.prototype that are all letters;     *)
(* the model carries one of them.                                           *)
InheritedKeys == {ValueOfText}

(* `identifier in TOKENS_GENERATOR`: own and inherited keys alike *)
InGenerator(identifier) == identifier \in OwnKeys \cup InheritedKeys

(* What an inherited method returns is no Token: none of its fields is set *)
NotAToken ==
  [type |-> Undefined, value |-> Undefined, start |-> Undefined, end |-> Undefined]

(* TOKENS_GENERATOR[identifier](startIndex): the call passes no value, so   *)
(* the identifier entry reads .length of undefined and throws.              *)
GeneratorThrows(identifier) == identifier = IdentifierText

GeneratorCall(identifier, start) ==
  CASE identifier = LetText -> GenLet(start)
    [] identifier = AssignText -> GenAssign(start)
    [] identifier = FunctionText -> GenFunction(start)
    [] identifier = LeftParenText -> GenLeftParen(start)
    [] identifier = RightParenText -> GenRightParen(start)
    [] identifier = LeftCurlyText -> GenLeftCurly(start)
    [] identifier = RightCurlyText -> GenRightCurly(start)
    [] OTHER -> NotAToken

(* KNOWN_SINGLE_CHAR_TOKENS *)
SingleChars == {"(", ")", "{", "}", "="}
isSingleCharToken(c) == c \in SingleChars

SingleCharToken(c, start) ==
  CASE c = "(" -> GenLeftParen(start)
    [] c = ")" -> GenRightParen(start)
    [] c = "{" -> GenLeftCurly(start)
    [] c = "}" -> GenRightCurly(start)
    [] c = "=" -> GenAssign(start)

(* this.#source[i], i 0-based: undefined past the end *)
CharAt(src, i) == IF i < Len(src) THEN src[i + 1] ELSE Undefined

(* The inner while loop: the offset after the run of letters starting at i *)
RECURSIVE RunEnd(_, _)
RunEnd(src, i) == IF isAlpha(CharAt(src, i)) THEN RunEnd(src, i + 1) ELSE i

Slice(src, from, to) == SubSeq(src, from + 1, to)

(* The token of the run of letters src[start, stop) *)
LettersToken(identifier, start) ==
  IF InGenerator(identifier)
  THEN GeneratorCall(identifier, start)
  ELSE GenIdentifier(start, identifier)

(* tokenize() is entered: the instance keeps #currentIndex and #tokens *)
Tokenize ==
  /\ tStatus \in {"idle", "done", "error"}
  /\ Len(tOut) < MaxCalls
  /\ tStatus' = "running"
  /\ UNCHANGED <<source, tIndex, tTokens, tOut, parVars, prim>>

(* while condition false: return this.#tokens *)
TokReturn ==
  /\ tStatus = "running"
  /\ ~(tIndex < Len(source))
  /\ tStatus' = "done"
  /\ tOut' = Append(tOut, [ok |-> TRUE, tokens |-> tTokens])
  /\ UNCHANGED <<source, tIndex, tTokens, parVars, prim>>

(* 1. handle space *)
TokSpace ==
  /\ tStatus = "running"
  /\ tIndex < Len(source)
  /\ CharAt(source, tIndex) = " "
  /\ tIndex' = tIndex + 1
  /\ UNCHANGED <<source, tTokens, tStatus, tOut, parVars, prim>>

(* 2. handle letters *)
TokLetters ==
  /\ tStatus = "running"
  /\ tIndex < Len(source)
  /\ CharAt(source, tIndex) # " "
  /\ isAlpha(CharAt(source, tIndex))
  /\ LET stop == RunEnd(source, tIndex)
         identifier == Slice(source, tIndex, stop)
     IN /\ tIndex' = stop
        /\ IF InGenerator(identifier) /\ GeneratorThrows(identifier)
           THEN /\ tStatus' = "error"
                /\ tOut' = Append(tOut, [ok |-> FALSE, tokens |-> <<>>])
                /\ UNCHANGED tTokens
           ELSE /\ tTokens' = Append(tTokens, LettersToken(identifier, tIndex))
                /\ UNCHANGED <<tStatus, tOut>>
  /\ UNCHANGED <<source, parVars, prim>>

(* 3. handle single char token *)
TokSingleChar ==
  /\ tStatus = "running"
  /\ tIndex < Len(source)
  /\ CharAt(source, tIndex) # " "
  /\ ~isAlpha(CharAt(source, tIndex))
  /\ isSingleCharToken(CharAt(source, tIndex))
  /\ tTokens' = Append(tTokens, SingleCharToken(CharAt(source, tIndex), tIndex))
  /\ tIndex' = tIndex + 1
  /\ UNCHANGED <<source, tStatus, tOut, parVars, prim>>

(* None of the three branches is taken: the loop body ends having changed   *)
(* nothing, and the while condition is evaluated again.                     *)
TokNoBranch ==
  /\ tStatus = "running"
  /\ tIndex < Len(source)
  /\ CharAt(source, tIndex) # " "
  /\ ~isAlpha(CharAt(source, tIndex))
  /\ ~isSingleCharToken(CharAt(source, tIndex))
  /\ UNCHANGED vars

TokNext == Tokenize \/ TokReturn \/ TokSpace \/ TokLetters \/ TokSingleChar \/ TokNoBranch

----------------------------------------------------------------------------
(* Parser *)

(* A `type: TokenType | TokenType[]` argument *)
One(t) == [array |-> FALSE, of |-> <<t>>]
Many(ts) == [array |-> TRUE, of |-> ts]

Range(s) == {s[i] : i \in DOMAIN s}

(* Errors: `Expect <expected>, but got <actual>`, `Unexpected token: <actual>`, *)
(* and the runtime's TypeError on reading a property of undefined.             *)
ExpectError(expected, actual) ==
  [kind |-> "Expect", expected |-> expected, actual |-> actual]
UnexpectedError(actual) ==
  [kind |-> "Unexpected", expected |-> <<>>, actual |-> actual]
TypeError == [kind |-> "TypeError", expected |-> <<>>, actual |-> Undefined]
NoError == [kind |-> "none", expected |-> <<>>, actual |-> Undefined]

(* get #isEnd *)
IsEndAt(toks, idx) == idx >= Len(toks)
IsEnd == IsEndAt(tokens, currentIndex)

(* get #currentToken, get #previousToken (read only where defined) *)
CurrentToken == tokens[currentIndex + 1]
PreviousToken == tokens[currentIndex]

(* #checkCurrentTokenType *)
CheckCurrentTokenType(toks, idx, type) ==
  IF IsEndAt(toks, idx) THEN FALSE
  ELSE IF type.array THEN toks[idx + 1].type \in Range(type.of)
       ELSE toks[idx + 1].type = type.of[1]

(* #goNext without its comparison of types: any token is taken *)
GoNextUnchecked(toks, idx, type) ==
  IF IsEndAt(toks, idx)
  THEN [error |-> TypeError, index |-> idx]
  ELSE [error |-> NoError, index |-> idx + 1]

(* #goNext: what it throws, or NoError and the cursor moved by one.  The     *)
(* second test compares the token's type with the argument itself, which an  *)
(* array never equals.                                                       *)
GoNext(toks, idx, type) ==
  IF IsEndAt(toks, idx)
  THEN [error |-> TypeError, index |-> idx]
  ELSE LET currentType == toks[idx + 1].type
       IN IF type.array /\ currentType \notin Range(type.of)
          THEN [error |-> ExpectError(type.of, currentType), index |-> idx]
          ELSE IF type.array \/ currentType # type.of[1]
               THEN [error |-> ExpectError(type.of, currentType), index |-> idx]
               ELSE [error |-> NoError, index |-> idx + 1]

Thrown(r) == r.error # NoError

(* Call stack *)
Top == stack[Len(stack)]
At(fn, pc) == pStatus = "running" /\ stack # <<>> /\ Top.fn = fn /\ Top.pc = pc
Frame(fn, pc, loc) == [fn |-> fn, pc |-> pc, loc |-> loc]
NoLocals == [none |-> TRUE]

(* The running function moves to pc with locals loc and calls fn *)
Call(pc, loc, fn, fpc) ==
  /\ stack' = Append([stack EXCEPT ![Len(stack)] = Frame(Top.fn, pc, loc)],
                     Frame(fn, fpc, NoLocals))
  /\ UNCHANGED <<pStatus, pOut>>

(* The running function stays, at pc with locals loc *)
Goto(pc, loc) ==
  /\ stack' = [stack EXCEPT ![Len(stack)] = Frame(Top.fn, pc, loc)]
  /\ UNCHANGED <<pStatus, pOut>>

(* The running function returns v to its caller *)
Return(v) ==
  /\ stack' = SubSeq(stack, 1, Len(stack) - 1)
  /\ ret' = v
  /\ IF Len(stack) = 1
     THEN /\ pStatus' = "done"
          /\ pOut' = Append(pOut, [ok |-> TRUE, error |-> NoError, tree |-> v])
     ELSE UNCHANGED <<pStatus, pOut>>

(* An error unwinds every frame: parse() ends with the error and no value *)
Throw(err) ==
  /\ stack' = <<>>
  /\ ret' = Null
  /\ pStatus' = "error"
  /\ pOut' = Append(pOut, [ok |-> FALSE, error |-> err, tree |-> Null])
  /\ UNCHANGED currentIndex

(* new Parser(tokens) on what the tokenizer returned *)
NewParser ==
  /\ pStatus = "none"
  /\ tStatus = "done"
  /\ tokens' = tTokens
  /\ currentIndex' = 0
  /\ pStatus' = "idle"
  /\ UNCHANGED <<tokVars, stack, ret, pOut, prim>>

(* parse(): enters #parseProgram and builds the Program node *)
Parse ==
  /\ pStatus \in {"idle", "done", "error"}
  /\ Len(pOut) < MaxCalls
  /\ pStatus' = "running"
  /\ stack' = <<Frame("parseProgram", "loop",
                      [type |-> "Program", body |-> <<>>, start |-> 0, end |-> Infinity])>>
  /\ ret' = Null
  /\ UNCHANGED <<tokVars, tokens, currentIndex, pOut, prim>>

(* #parseProgram: the test of the while loop *)
ProgramLoop ==
  /\ At("parseProgram", "loop")
  /\ IF ~IsEnd
     THEN Call("push", Top.loc, "parseStatement", "start") /\ UNCHANGED ret
     ELSE Return(Top.loc)
  /\ UNCHANGED <<tokVars, tokens, currentIndex, prim>>

(* The push without the assignment of program.end *)
ProgramPushedEndUnset(program, node, isEnd) ==
  [program EXCEPT !.body = Append(@, node)]

(* program.body.push(node); if (this.#isEnd) program.end = node.end *)
ProgramPushed(program, node, isEnd) ==
  [program EXCEPT !.body = Append(@, node),
                  !.end = IF isEnd THEN node.end ELSE @]

ProgramPush ==
  /\ At("parseProgram", "push")
  /\ Goto("loop", ProgramPushed(Top.loc, ret, IsEnd))
  /\ UNCHANGED <<tokVars, tokens, currentIndex, ret, prim>>

(* #parseStatement *)
Statement ==
  /\ At("parseStatement", "start")
  /\ IF CheckCurrentTokenType(tokens, currentIndex, One(Let))
     THEN Call("return", NoLocals, "parseVariableDeclaration", "start")
          /\ UNCHANGED <<ret, currentIndex>>
     ELSE IF IsEnd THEN Throw(TypeError)
          ELSE Throw(UnexpectedError(CurrentToken.type))
  /\ UNCHANGED <<tokVars, tokens, prim>>

StatementReturn ==
  /\ At("parseStatement", "return")
  /\ Return(ret)
  /\ UNCHANGED <<tokVars, tokens, currentIndex, prim>>

(* #parseIdentifier *)
IdentifierNode(token) ==
  [type |-> "Identifier", name |-> token.value, start |-> token.start, end |-> token.end]

ParseIdentifier ==
  /\ At("parseIdentifier", "start")
  /\ IF IsEnd THEN Throw(TypeError)
     ELSE LET r == GoNext(tokens, currentIndex, One(Identifier))
          IN IF Thrown(r) THEN Throw(r.error)
             ELSE currentIndex' = r.index /\ Return(IdentifierNode(CurrentToken))
  /\ UNCHANGED <<tokVars, tokens, prim>>

(* #parseVariableDeclaration up to the call of #parseIdentifier *)
VarDeclStart ==
  /\ At("parseVariableDeclaration", "start")
  /\ IF IsEnd THEN Throw(TypeError)
     ELSE LET r == GoNext(tokens, currentIndex, One(Let))
          IN IF Thrown(r) THEN Throw(r.error)
             ELSE /\ currentIndex' = r.index
                  /\ Call("assign",
                          [start |-> CurrentToken.start, kind |-> CurrentToken.value],
                          "parseIdentifier", "start")
                  /\ UNCHANGED ret
  /\ UNCHANGED <<tokVars, tokens, prim>>

(* ... from there to the call of #parseFunctionExpression *)
VarDeclAssign ==
  /\ At("parseVariableDeclaration", "assign")
  /\ LET r == GoNext(tokens, currentIndex, One(Assign))
     IN IF Thrown(r) THEN Throw(r.error)
        ELSE /\ currentIndex' = r.index
             /\ Call("finish",
                     [start |-> Top.loc.start, kind |-> Top.loc.kind, id |-> ret],
                     "parseFunctionExpression", "start")
             /\ UNCHANGED ret
  /\ UNCHANGED <<tokVars, tokens, prim>>

(* ... and the two nodes it builds *)
Declarator(start, id, init) ==
  [type |-> "VariableDeclarator", id |-> id, init |-> init,
   start |-> start, end |-> init.end]

Declaration(start, kind, id, init, previousToken) ==
  [type |-> "VariableDeclaration", kind |-> kind,
   declarations |-> <<Declarator(start, id, init)>>,
   start |-> start, end |-> previousToken.end]

VarDeclFinish ==
  /\ At("parseVariableDeclaration", "finish")
  /\ Return(Declaration(Top.loc.start, Top.loc.kind, Top.loc.id, ret, PreviousToken))
  /\ UNCHANGED <<tokVars, tokens, currentIndex, prim>>

(* #parseFunctionExpression up to its first call *)
FuncStart ==
  /\ At("parseFunctionExpression", "start")
  /\ IF IsEnd THEN Throw(TypeError)
     ELSE LET r == GoNext(tokens, currentIndex, One(Function))
          IN IF Thrown(r) THEN Throw(r.error)
             ELSE /\ currentIndex' = r.index
                  /\ UNCHANGED ret
                  /\ IF CheckCurrentTokenType(tokens, r.index, One(Identifier))
                     THEN Call("id", [start |-> CurrentToken.start],
                               "parseIdentifier", "start")
                     ELSE Call("body", [start |-> CurrentToken.start, id |-> Null],
                               "parseParam", "start")
  /\ UNCHANGED <<tokVars, tokens, prim>>

FuncId ==
  /\ At("parseFunctionExpression", "id")
  /\ Call("body", [start |-> Top.loc.start, id |-> ret], "parseParam", "start")
  /\ UNCHANGED <<tokVars, tokens, currentIndex, ret, prim>>

FuncBody ==
  /\ At("parseFunctionExpression", "body")
  /\ Call("finish", [start |-> Top.loc.start, id |-> Top.loc.id, params |-> ret],
          "parseBlockStatement", "start")
  /\ UNCHANGED <<tokVars, tokens, currentIndex, ret, prim>>

FunctionNode(start, id, params, body) ==
  [type |-> "FunctionExpression", id |-> id, params |-> params, body |-> body,
   start |-> start, end |-> body.end]

FuncFinish ==
  /\ At("parseFunctionExpression", "finish")
  /\ Return(FunctionNode(Top.loc.start, Top.loc.id, Top.loc.params, ret))
  /\ UNCHANGED <<tokVars, tokens, currentIndex, prim>>

(* #parseParam *)
ParamStart ==
  /\ At("parseParam", "start")
  /\ LET r == GoNext(tokens, currentIndex, One(LeftParen))
     IN IF Thrown(r) THEN Throw(r.error)
        ELSE currentIndex' = r.index /\ Goto("loop", <<>>) /\ UNCHANGED ret
  /\ UNCHANGED <<tokVars, tokens, prim>>

ParamLoop ==
  /\ At("parseParam", "loop")
  /\ IF ~CheckCurrentTokenType(tokens, currentIndex, One(RightParen))
     THEN Call("push", Top.loc, "parseIdentifier", "start")
          /\ UNCHANGED <<ret, currentIndex>>
     ELSE LET r == GoNext(tokens, currentIndex, One(RightParen))
          IN IF Thrown(r) THEN Throw(r.error)
             ELSE currentIndex' = r.index /\ Return(Top.loc)
  /\ UNCHANGED <<tokVars, tokens, prim>>

(* unshift in place of push *)
ParamsPushedFront(params, identifier) == <<identifier>> \o params

(* params.push(this.#parseIdentifier()) *)
ParamsPushed(params, identifier) == Append(params, identifier)

ParamPush ==
  /\ At("parseParam", "push")
  /\ Goto("loop", ParamsPushed(Top.loc, ret))
  /\ UNCHANGED <<tokVars, tokens, currentIndex, ret, prim>>

(* #parseBlockStatement *)
BlockStart ==
  /\ At("parseBlockStatement", "start")
  /\ IF IsEnd THEN Throw(TypeError)
     ELSE LET r == GoNext(tokens, currentIndex, One(LeftCurly))
          IN IF Thrown(r) THEN Throw(r.error)
             ELSE /\ currentIndex' = r.index
                  /\ UNCHANGED ret
                  /\ Goto("loop", [type |-> "BlockStatement", body |-> <<>>,
                                   start |-> CurrentToken.start, end |-> Infinity])
  /\ UNCHANGED <<tokVars, tokens, prim>>

BlockLoop ==
  /\ At("parseBlockStatement", "loop")
  /\ IF ~CheckCurrentTokenType(tokens, currentIndex, One(RightCurly))
     THEN Call("push", Top.loc, "parseStatement", "start")
          /\ UNCHANGED <<ret, currentIndex>>
     ELSE LET r == GoNext(tokens, currentIndex, One(RightCurly))
          IN IF Thrown(r) THEN Throw(r.error)
             ELSE /\ currentIndex' = r.index
                  /\ Return([Top.loc EXCEPT !.end = CurrentToken.end])
  /\ UNCHANGED <<tokVars, tokens, prim>>

BlockPush ==
  /\ At("parseBlockStatement", "push")
  /\ Goto("loop", [Top.loc EXCEPT !.body = Append(@, ret)])
  /\ UNCHANGED <<tokVars, tokens, currentIndex, ret, prim>>

ParseNext ==
  \/ Parse \/ ProgramLoop \/ ProgramPush \/ Statement \/ StatementReturn
  \/ ParseIdentifier \/ VarDeclStart \/ VarDeclAssign \/ VarDeclFinish
  \/ FuncStart \/ FuncId \/ FuncBody \/ FuncFinish
  \/ ParamStart \/ ParamLoop \/ ParamPush
  \/ BlockStart \/ BlockLoop \/ BlockPush

----------------------------------------------------------------------------
(* Direct application of the cursor primitives to a parser's tokens *)

TypeArgs ==
  {One(t) : t \in TokenType}
    \cup {Many(<<Let, Function>>), Many(<<Identifier>>),
          Many(<<LeftParen, RightParen, Identifier>>)}

ApplyGoNext ==
  /\ pStatus = "idle"
  /\ \E type \in TypeArgs :
       LET r == GoNext(tokens, currentIndex, type)
       IN /\ currentIndex' = r.index
          /\ prim' = [op |-> "goNext", type |-> type, before |-> currentIndex,
                      ok |-> ~Thrown(r)]
  /\ UNCHANGED <<tokVars, tokens, stack, ret, pStatus, pOut>>

ApplyCheck ==
  /\ pStatus = "idle"
  /\ \E type \in TypeArgs :
       prim' = [op |-> "check", type |-> type, before |-> currentIndex,
                ok |-> CheckCurrentTokenType(tokens, currentIndex, type)]
  /\ UNCHANGED <<tokVars, parVars>>

PrimNext == ApplyGoNext \/ ApplyCheck

----------------------------------------------------------------------------
(* Inputs *)

(* The concatenation of ss[a..b], by halves *)
RECURSIVE FlattenRange(_, _, _)
FlattenRange(ss, a, b) ==
  IF a > b THEN <<>>
  ELSE IF a = b THEN ss[a]
       ELSE LET mid == (a + b) \div 2
            IN FlattenRange(ss, a, mid) \o FlattenRange(ss, mid + 1, b)

Flatten(ss) == FlattenRange(ss, 1, Len(ss))

SeqsUpTo(S, n) == UNION {[1..k -> S] : k \in 0..n}

(* Sources made of whole words: keywords, names that are keys of the token   *)
(* table, plain names, the characters of the language and two that are not   *)
Words ==
  {LetText, FunctionText, AssignText, IdentifierText, ValueOfText, RightCurlyText,
   <<"x">>, <<"L","e","t">>, <<" ">>, <<"(">>, <<")">>, <<"{">>, <<"}">>, <<"=">>,
   <<",">>, <<"1">>}

WordSources == {Flatten(ws) : ws \in SeqsUpTo(Words, MaxWords)}

(* Token type sequences of the grammar *)
Ids(n) == [i \in 1..n |-> Identifier]

Heads ==
  {<<Let, Identifier, Assign, Function>> \o fid \o <<LeftParen>> \o Ids(n) \o <<RightParen>> :
     fid \in {<<>>, <<Identifier>>}, n \in 0..MaxParams}

Inner == <<Let, Identifier, Assign, Function, LeftParen, RightParen, LeftCurly, RightCurly>>

Nested ==
  <<Let, Identifier, Assign, Function, Identifier, LeftParen, Identifier, RightParen,
    LeftCurly>> \o Inner \o <<RightCurly>>

Bodies == {<<>>, Inner, Inner \o Inner, Nested}

Statements == {h \o <<LeftCurly>> \o b \o <<RightCurly>> : h \in Heads, b \in Bodies}

Programs ==
  {<<>>} \cup Statements
    \cup {Flatten(ss) : ss \in SeqsUpTo({Inner, Nested}, MaxTop)}

(* Sequences one edit away from a program: a token replaced, removed or      *)
(* inserted, the sequence cut short                                          *)
Replaced(p) ==
  {[p EXCEPT ![i] = t] : i \in DOMAIN p, t \in TokenType}
Removed(p) ==
  {SubSeq(p, 1, i - 1) \o SubSeq(p, i + 1, Len(p)) : i \in DOMAIN p}
Inserted(p) ==
  {SubSeq(p, 1, i) \o <<t>> \o SubSeq(p, i + 1, Len(p)) : i \in 0..Len(p), t \in TokenType}
Prefixes(p) == {SubSeq(p, 1, n) : n \in 0..Len(p)}

TwoInTwo ==
  <<Let, Identifier, Assign, Function, Identifier, LeftParen, Identifier, Identifier,
    RightParen, LeftCurly>> \o Inner \o Inner \o <<RightCurly>>

Edited ==
  UNION {Replaced(p) \cup Removed(p) \cup Inserted(p) \cup Prefixes(p) :
           p \in {Inner, Nested, TwoInTwo}}

ShortSeqs == SeqsUpTo(TokenType, MaxShort)

(* Names of identifiers: the k-th token of a sequence, if an Identifier, is  *)
(* named names[k % 2]                                                        *)
NameA == <<"a">>
NameB == <<"b","c">>
NameSchemes == {<<NameA, NameB>>, <<NameB, NameA>>, <<NameA, NameA>>}
KeyNames == <<AssignText, NameA>>

Spelling(type, name) ==
  CASE type = Let -> LetText
    [] type = Function -> FunctionText
    [] type = Identifier -> name
    [] type = Assign -> <<"=">>
    [] type = LeftParen -> <<"(">>
    [] type = RightParen -> <<")">>
    [] type = LeftCurly -> <<"{">>
    [] type = RightCurly -> <<"}">>

NameOf(names, k) == names[(k % 2) + 1]

(* The length of the spellings of tokens a..b, by halves *)
RECURSIVE Width(_, _, _, _)
Width(ts, names, a, b) ==
  IF a > b THEN 0
  ELSE IF a = b THEN Len(Spelling(ts[a], NameOf(names, a)))
       ELSE LET mid == (a + b) \div 2
            IN Width(ts, names, a, mid) + Width(ts, names, mid + 1, b)

(* The tokens of a type sequence written out with one space between tokens   *)
(* after `lead` leading spaces                                               *)
Layout(ts, names, lead) ==
  [k \in 1..Len(ts) |->
     LET text == Spelling(ts[k], NameOf(names, k))
         pos == lead + Width(ts, names, 1, k - 1) + (k - 1)
     IN [type |-> ts[k], value |-> text, start |-> pos, end |-> pos + Len(text)]]

Spaces(n) == [i \in 1..n |-> " "]

(* ... and the source text so written *)
Render(ts, names, lead) ==
  Spaces(lead) \o
    Flatten([k \in 1..Len(ts) |->
               Spelling(ts[k], NameOf(names, k)) \o (IF k < Len(ts) THEN <<" ">> ELSE <<>>)])

Leads == {0, 1}

(* The programs written out, and one whose declared name is a key of the    *)
(* token table                                                               *)
ProgramSources ==
  {Render(ts, names, lead) : ts \in Programs, names \in NameSchemes, lead \in Leads}
    \cup {Render(Inner, KeyNames, 0)}

Sources == WordSources \cup ProgramSources

TokenInputs ==
  {Layout(ts, names, lead) : ts \in Programs, names \in NameSchemes, lead \in Leads}
    \cup {Layout(ts, <<NameA, NameB>>, 0) : ts \in Edited \cup ShortSeqs}

----------------------------------------------------------------------------
(* Specifications *)

NoPrim == [op |-> "none", type |-> One(Let), before |-> 0, ok |-> FALSE]

(* new Tokenizer(source); the parser is built from what tokenize() returns *)
Init ==
  /\ source \in Sources
  /\ tIndex = 0 /\ tTokens = <<>> /\ tStatus = "idle" /\ tOut = <<>>
  /\ tokens = <<>> /\ currentIndex = 0 /\ stack = <<>> /\ ret = Null
  /\ pStatus = "none" /\ pOut = <<>>
  /\ prim = NoPrim

Next == TokNext \/ NewParser \/ ParseNext

Spec == Init /\ [][Next]_vars

(* The tokenizer alone; tokenize() runs without interruption once entered *)
TokInit ==
  /\ source \in WordSources
  /\ tIndex = 0 /\ tTokens = <<>> /\ tStatus = "idle" /\ tOut = <<>>
  /\ tokens = <<>> /\ currentIndex = 0 /\ stack = <<>> /\ ret = Null
  /\ pStatus = "none" /\ pOut = <<>>
  /\ prim = NoPrim

TokSpec == TokInit /\ [][TokNext]_vars /\ WF_vars(TokNext)

(* new Parser(tokens) on a token sequence *)
ParserInit ==
  /\ source = <<>>
  /\ tIndex = 0 /\ tTokens = <<>> /\ tStatus = "idle" /\ tOut = <<>>
  /\ tokens \in TokenInputs
  /\ currentIndex = 0 /\ stack = <<>> /\ ret = Null
  /\ pStatus = "idle" /\ pOut = <<>>
  /\ prim = NoPrim

ParserSpec == ParserInit /\ [][ParseNext]_vars

(* The cursor primitives applied to a parser's tokens *)
PrimInit ==
  /\ source = <<>>
  /\ tIndex = 0 /\ tTokens = <<>> /\ tStatus = "idle" /\ tOut = <<>>
  /\ tokens \in {Layout(ts, <<NameA, NameB>>, 0) : ts \in ShortSeqs}
  /\ currentIndex = 0 /\ stack = <<>> /\ ret = Null
  /\ pStatus = "idle" /\ pOut = <<>>
  /\ prim = NoPrim

PrimSpec == PrimInit /\ [][PrimNext]_vars

----------------------------------------------------------------------------
(* The grammar, read as a recogniser over token types:                       *)
(*   Program   := Statement*                                                 *)
(*   Statement := Let Identifier Assign Function Identifier? LeftParen       *)
(*                Identifier* RightParen LeftCurly Statement* RightCurly     *)
(* `phase` is the place in the Statement rule, `depth` the open blocks.      *)

GrammarStart == [phase |-> "statement", depth |-> 0, stuck |-> FALSE, read |-> 0]

(* One token read, or stuck at it for good *)
GrammarStep(st, t) ==
  LET to(ph) == [st EXCEPT !.phase = ph, !.read = @ + 1]
      no == [st EXCEPT !.stuck = TRUE]
  IN IF st.stuck THEN st
     ELSE CASE st.phase = "statement" ->
            IF t = Let THEN to("name")
            ELSE IF t = RightCurly /\ st.depth > 0
                 THEN [st EXCEPT !.depth = @ - 1, !.read = @ + 1]
                 ELSE no
       [] st.phase = "name" -> IF t = Identifier THEN to("assign") ELSE no
       [] st.phase = "assign" -> IF t = Assign THEN to("function") ELSE no
       [] st.phase = "function" -> IF t = Function THEN to("id") ELSE no
       [] st.phase = "id" ->
            IF t = Identifier THEN to("paren")
            ELSE IF t = LeftParen THEN to("params") ELSE no
       [] st.phase = "paren" -> IF t = LeftParen THEN to("params") ELSE no
       [] st.phase = "params" ->
            IF t = Identifier THEN to("params")
            ELSE IF t = RightParen THEN to("curly") ELSE no
       [] st.phase = "curly" ->
            IF t = LeftCurly
            THEN [st EXCEPT !.phase = "statement", !.depth = @ + 1, !.read = @ + 1]
            ELSE no

(* The recogniser's state after ts[a..b] from state st, by halves *)
RECURSIVE GrammarRange(_, _, _, _)
GrammarRange(ts, a, b, st) ==
  IF a > b THEN st
  ELSE IF a = b THEN GrammarStep(st, ts[a])
       ELSE LET mid == (a + b) \div 2
                half == GrammarRange(ts, a, mid, st)
            IN IF half.stuck THEN half ELSE GrammarRange(ts, mid + 1, b, half)

(* ... after the longest prefix of ts it can read; `read` is its length *)
GrammarRun(ts) == GrammarRange(ts, 1, Len(ts), GrammarStart)

Derivable(ts) ==
  LET st == GrammarRun(ts)
  IN ~st.stuck /\ st.phase = "statement" /\ st.depth = 0

(* 0-based index of the first token no derivable sequence continues with,    *)
(* the length of the sequence if it is only cut short                        *)
FirstOffending(ts) == GrammarRun(ts).read

TypesOf(toks) == [k \in DOMAIN toks |-> toks[k].type]

----------------------------------------------------------------------------
(* Walks over a tree *)

RECURSIVE FunctionsOf(_)
RECURSIVE FunctionsOfAll(_)

(* The FunctionExpression nodes under a statement, outer before inner, in    *)
(* the order of the text                                                     *)
FunctionsOf(declaration) ==
  LET init == declaration.declarations[1].init
  IN <<init>> \o FunctionsOfAll(init.body.body)

FunctionsOfAll(statements) ==
  IF statements = <<>> THEN <<>>
  ELSE FunctionsOf(Head(statements)) \o FunctionsOfAll(Tail(statements))

Indexes(toks, type) == {k \in DOMAIN toks : toks[k].type = type}

(* The k-th smallest element of a set of numbers *)
Nth(S, k) == CHOOSE x \in S : Cardinality({y \in S : y < x}) = k - 1

FirstOutcome == pOut[1]
Finished(k) == Len(pOut) >= k

----------------------------------------------------------------------------
(* Claims about the parser, on a parser's first parse() unless said otherwise *)

(* C3: parse returns a Program exactly when the token sequence is derivable  *)
(* from the grammar; otherwise it ends with an error, returns no tree, and   *)
(* the cursor is at the first offending position.                            *)
C3_ParseIffDerivable ==
  /\ Finished(1) =>
       /\ FirstOutcome.ok <=> Derivable(TypesOf(tokens))
       /\ FirstOutcome.ok => FirstOutcome.tree.type = "Program"
       /\ ~FirstOutcome.ok => FirstOutcome.tree = Null /\ FirstOutcome.error # NoError
  /\ (pStatus = "error" /\ Len(pOut) = 1) =>
       currentIndex = FirstOffending(TypesOf(tokens))

(* A wrong token met inside a nested block, with tokens left after it *)
C3_Witness ==
  /\ pStatus = "error" /\ Len(pOut) = 1
  /\ currentIndex >= 10 /\ currentIndex < Len(tokens) - 1
  /\ ~Derivable(TypesOf(tokens))

(* C4: every failure of parse is an UnexpectedToken error carrying the       *)
(* expected token type(s) and the actual token type at the cursor.           *)
C4_ErrorsCarryTypes ==
  (Finished(1) /\ ~FirstOutcome.ok) =>
    /\ FirstOutcome.error.kind \in {"Expect", "Unexpected"}
    /\ FirstOutcome.error.expected # <<>>
    /\ FirstOutcome.error.actual \in TokenType

(* C6: a returned Program with statements ends where its last statement     *)
(* ends; on the empty token sequence parse returns an empty Program whose    *)
(* end is the sentinel.                                                      *)
C6_ProgramEnd ==
  /\ \A k \in DOMAIN pOut :
       pOut[k].ok =>
         LET body == pOut[k].tree.body
         IN /\ body # <<>> => pOut[k].tree.end = body[Len(body)].end
            /\ tokens = <<>> => body = <<>> /\ pOut[k].tree.end = Infinity
  /\ (tokens = <<>> /\ Finished(1)) => FirstOutcome.ok

(* A Program of two statements has been returned *)
C6_Witness ==
  /\ Finished(1) /\ FirstOutcome.ok
  /\ Len(FirstOutcome.tree.body) = 2
  /\ FirstOutcome.tree.end = tokens[Len(tokens)].end

(* The function literal whose `function` token is tokens[i] *)
FunctionMatches(fe, i) ==
  LET named == i + 1 <= Len(tokens) /\ tokens[i + 1].type = Identifier
      lp == IF named THEN i + 2 ELSE i + 1
      closing == {j \in Indexes(tokens, RightParen) : j > lp}
      rp == CHOOSE j \in closing : \A h \in closing : j <= h
  IN /\ (fe.id # Null) <=> named
     /\ named => fe.id.type = "Identifier" /\ fe.id.name = tokens[i + 1].value
     /\ tokens[lp].type = LeftParen
     /\ Len(fe.params) = rp - lp - 1
     /\ \A j \in 1..Len(fe.params) :
          /\ tokens[lp + j].type = Identifier
          /\ fe.params[j].type = "Identifier"
          /\ fe.params[j].name = tokens[lp + j].value

(* C8: each FunctionExpression has an id exactly when an Identifier token    *)
(* follows its `function` token, and its params are the Identifier tokens    *)
(* between its parentheses, one node per token, same names, same order.      *)
C8_FunctionIdAndParams ==
  (Finished(1) /\ FirstOutcome.ok) =>
    LET fs == FunctionsOfAll(FirstOutcome.tree.body)
        F == Indexes(tokens, Function)
    IN /\ Len(fs) = Cardinality(F)
       /\ \A k \in DOMAIN fs : FunctionMatches(fs[k], Nth(F, k))

(* A named function with two parameters of the same name, and an anonymous   *)
(* one, in one returned tree                                                 *)
C8_Witness ==
  /\ Finished(1) /\ FirstOutcome.ok
  /\ LET fs == FunctionsOfAll(FirstOutcome.tree.body)
     IN /\ \E k \in DOMAIN fs :
             /\ fs[k].id # Null
             /\ Len(fs[k].params) = 2
             /\ fs[k].params[1].name = fs[k].params[2].name
        /\ \E k \in DOMAIN fs : fs[k].id = Null

(* C9: a second parse() on the same Parser, and a second tokenize() on the   *)
(* same Tokenizer, yields the same outcome as the first.                     *)
C9_SameOutcome ==
  /\ Len(pOut) = 2 => pOut[2] = pOut[1]
  /\ Len(tOut) = 2 => tOut[2] = tOut[1]

(* Whether the current token is of the expected type or in the expected set *)
Matches(type, toks, idx) ==
  /\ idx < Len(toks)
  /\ \E j \in DOMAIN type.of : toks[idx + 1].type = type.of[j]

(* C10: #goNext succeeds exactly when the current token's type is the        *)
(* expected type or a member of the expected set, then moves the cursor by   *)
(* one, and leaves it on a mismatch; #checkCurrentTokenType never moves it.  *)
C10_ExpectPrimitive ==
  /\ prim.op = "goNext" =>
       /\ prim.ok <=> Matches(prim.type, tokens, prim.before)
       /\ currentIndex = IF prim.ok THEN prim.before + 1 ELSE prim.before
  /\ prim.op = "check" => currentIndex = prim.before

----------------------------------------------------------------------------
(* Spans *)

RECURSIVE TokenCount(_)
RECURSIVE TokenCountAll(_)

(* The number of tokens a node is built from *)
TokenCount(node) ==
  CASE node.type = "Identifier" -> 1
    [] node.type = "BlockStatement" -> 2 + TokenCountAll(node.body)
    [] node.type = "FunctionExpression" ->
         1 + (IF node.id = Null THEN 0 ELSE 1) + 2 + Len(node.params)
           + TokenCount(node.body)
    [] node.type = "VariableDeclarator" -> 2 + TokenCount(node.init)
    [] node.type = "VariableDeclaration" -> 1 + TokenCount(node.declarations[1])
    [] node.type = "Program" -> TokenCountAll(node.body)

TokenCountAll(nodes) ==
  IF nodes = <<>> THEN 0 ELSE TokenCount(Head(nodes)) + TokenCountAll(Tail(nodes))

(* The node spans from its first token's start to its last token's end *)
Bounds(node, first) ==
  /\ node.start = tokens[first].start
  /\ node.end = tokens[first + TokenCount(node) - 1].end

RECURSIVE SpansExact(_, _)
RECURSIVE SpansExactAll(_, _)

(* Every node of the tree whose first token is tokens[first] bounds its tokens *)
SpansExact(node, first) ==
  CASE node.type = "Identifier" -> Bounds(node, first)
    [] node.type = "BlockStatement" ->
         Bounds(node, first) /\ SpansExactAll(node.body, first + 1)
    [] node.type = "FunctionExpression" ->
         LET lp == first + (IF node.id = Null THEN 1 ELSE 2)
         IN /\ Bounds(node, first)
            /\ node.id # Null => SpansExact(node.id, first + 1)
            /\ SpansExactAll(node.params, lp + 1)
            /\ SpansExact(node.body, lp + Len(node.params) + 2)
    [] node.type = "VariableDeclarator" ->
         /\ Bounds(node, first)
         /\ SpansExact(node.id, first)
         /\ SpansExact(node.init, first + 2)
    [] node.type = "VariableDeclaration" ->
         Bounds(node, first) /\ SpansExact(node.declarations[1], first + 1)
    [] node.type = "Program" ->
         /\ node.body # <<>> => Bounds(node, first)
         /\ SpansExactAll(node.body, first)

SpansExactAll(nodes, first) ==
  \/ nodes = <<>>
  \/ /\ SpansExact(Head(nodes), first)
     /\ SpansExactAll(Tail(nodes), first + TokenCount(Head(nodes)))

(* C5: in a returned tree every node starts where the first token it was     *)
(* built from starts and ends where the last one ends; a VariableDeclarator  *)
(* spans from its id to the end of its init, a non-empty Program starts at   *)
(* its first token.                                                          *)
C5_SpansExact ==
  (Finished(1) /\ FirstOutcome.ok) => SpansExact(FirstOutcome.tree, 1)

----------------------------------------------------------------------------
(* Claims about the tokenizer and about parse(tokenize(source)) *)

(* The space, the letters and the five characters of the language *)
Recognized(c) == c = " " \/ c \in Lower \cup Upper \/ c \in SingleChars

(* The maximal runs of letters of a text, as <<start, end>>, end exclusive *)
MaximalRuns(src) ==
  {r \in (0..Len(src)) \X (0..Len(src)) :
     /\ r[1] < r[2]
     /\ \A i \in r[1]..(r[2] - 1) : src[i + 1] \in Lower \cup Upper
     /\ r[1] = 0 \/ src[r[1]] \notin Lower \cup Upper
     /\ r[2] = Len(src) \/ src[r[2] + 1] \notin Lower \cup Upper}

RunType(text) ==
  IF text = LetText THEN Let ELSE IF text = FunctionText THEN Function ELSE Identifier

IsToken(token) == token.type \in TokenType

(* The run's one token: a keyword token for `let` and `function`, else an    *)
(* Identifier valued with the text and as long as the run                    *)
RunTokenOK(token, text, start) ==
  /\ token.type = RunType(text)
  /\ token.start = start
  /\ token.end - token.start = Len(text)
  /\ token.type = Identifier => token.value = text

(* C2: every maximal run of letters the tokenizer has read gave exactly one  *)
(* token, at the run's start: Let or Function if the text is exactly `let`   *)
(* or `function`, otherwise an Identifier with the text as value.            *)
C2_RunTokens ==
  \A r \in MaximalRuns(source) :
    (r[2] <= tIndex) =>
      /\ \A k \in DOMAIN tTokens : IsToken(tTokens[k])
      /\ LET at == {k \in DOMAIN tTokens : tTokens[k].start = r[1]}
         IN /\ Cardinality(at) = 1
            /\ \A k \in at : RunTokenOK(tTokens[k], Slice(source, r[1], r[2]), r[1])

(* tokenize() is at a character that is none of the recognized ones *)
AtUnrecognized ==
  /\ tStatus = "running"
  /\ tIndex < Len(source)
  /\ ~Recognized(CharAt(source, tIndex))

(* C1: tokenize ends on every input, having consumed all of it: from an      *)
(* unrecognized character on, too, which it skips.                           *)
C1_TokenizeTotal ==
  AtUnrecognized ~> (tStatus = "done" /\ tIndex = Len(source))

(* Where the tokens the text stands for start: at a single character of the *)
(* language and at the first letter of a run                                 *)
IntendedStarts(src) ==
  {i \in 0..(Len(src) - 1) :
     \/ src[i + 1] \in SingleChars
     \/ /\ src[i + 1] \in Lower \cup Upper
        /\ i = 0 \/ src[i] \notin Lower \cup Upper}

(* The tokens the text stands for: type and start of each *)
Intended(src) ==
  LET starts == IntendedStarts(src)
  IN [k \in 1..Cardinality(starts) |->
        LET i == Nth(starts, k)
        IN [type |-> IF src[i + 1] \in SingleChars
                     THEN SingleCharToken(src[i + 1], i).type
                     ELSE RunType(Slice(src, i, RunEnd(src, i))),
            start |-> i]]

(* A text of the language: recognized characters only, tokens derivable *)
Accepted(src) ==
  /\ \A i \in DOMAIN src : Recognized(src[i])
  /\ Derivable(TypesOf(Intended(src)))

(* Where the `let` of each top-level declaration starts *)
TopLevelLets(src) ==
  LET its == Intended(src)
      open(k) == Cardinality({j \in 1..(k - 1) : its[j].type = LeftCurly})
      closed(k) == Cardinality({j \in 1..(k - 1) : its[j].type = RightCurly})
  IN {its[k].start : k \in {j \in DOMAIN its : its[j].type = Let /\ open(j) = closed(j)}}

(* C7: on a source of the language parse(tokenize(source)) returns a Program *)
(* with one statement per top-level `let`, in the order of the source, and   *)
(* no nested declaration among them.                                         *)
C7_TopLevelStatements ==
  (tStatus = "error" \/ Finished(1)) =>
    (Accepted(source) =>
       /\ tStatus # "error"
       /\ Finished(1) =>
            /\ FirstOutcome.ok
            /\ LET body == FirstOutcome.tree.body
                   lets == TopLevelLets(source)
               IN /\ Len(body) = Cardinality(lets)
                  /\ \A k \in DOMAIN body : body[k].start = Nth(lets, k))

====
